---- MODULE Spec2Model ----
(***************************************************************************)
(* UNI-T UT8802E multimeter driver: the HID chunk framer                   *)
(* (hardware/uni-t-ut8802e/protocol.c, api.c) and the packet parser        *)
(* (dmm/ut8802e.c).                                                        *)
(*                                                                         *)
(* A byte is a number 0..255; a C array is a sequence, C index i being     *)
(* TLA+ index i + 1.  A float is the record                                *)
(*   [inf, neg, mant, exp]  =  (-1)^neg * mant / 10^exp,  or +-infinity,   *)
(* so that the sign of zero and of infinity is kept; the rounding of       *)
(* binary32 arithmetic is not modelled.                                    *)
(***************************************************************************)
EXTENDS Integers, Sequences, FiniteSets, TLC

(***************************************************************************)
(* Program constants.                                                      *)
(***************************************************************************)
\* 0xAC, the first byte of every DMM packet.
MAGIC == 172
\* "A DMM packet is 8-byte."
UT8802E_PACKET_SIZE == 8
\* Size of one HID chunk: a count byte and up to 7 data bytes (protocol.h).
CHUNK_SIZE == 8
\* Size of devc->protocol_buf (protocol.h).
DMM_BUFSIZE == 256

(***************************************************************************)
(* Bounds of the model.                                                    *)
(***************************************************************************)
\* How many items (one stray byte, or one whole packet) the meter sends.
MaxItems == 3

\* buf[i] of a C array held as a sequence.
At(buf, i) == buf[i + 1]

\* (b & (1 << k)) != 0
Bit(b, k) == (b \div (2 ^ k)) % 2 = 1

(***************************************************************************)
(* dmm/ut8802e.c                                                           *)
(***************************************************************************)

\* static uint8_t bcd_to_dec(uint8_t byte)
\* The byte taken as a binary number, its two nibbles not told apart.
bcd_to_dec_Raw(byte) == byte

bcd_to_dec(byte) == ((byte \div 16) * 10 + (byte % 16)) % 256

\* memset(&info, 0, sizeof(struct ut8802e_info))
ZeroInfo ==
    [is_voltage |-> FALSE, is_current |-> FALSE, is_resistance |-> FALSE,
     is_capacitance |-> FALSE, is_frequency |-> FALSE,
     is_temperature |-> FALSE, is_celsius |-> FALSE, is_fahrenheit |-> FALSE,
     is_continuity |-> FALSE, is_diode |-> FALSE, is_duty_cycle |-> FALSE,
     is_power |-> FALSE, is_loop_current |-> FALSE,
     is_ac |-> FALSE, is_dc |-> FALSE,
     is_min |-> FALSE, is_max |-> FALSE, is_rel |-> FALSE, is_hold |-> FALSE,
     is_ol |-> FALSE, is_sign |-> FALSE]

\* The switch on the function byte buf[1] of parse_flags.
ParseMode(mode, info) ==
    CASE mode \in {12, 11, 10, 9} ->          \* 0x0c 0x0b 0x0a 0x09
             [info EXCEPT !.is_voltage = TRUE, !.is_ac = TRUE]
      [] mode \in {1, 3, 4, 5, 6} ->
             [info EXCEPT !.is_voltage = TRUE, !.is_dc = TRUE]
      [] mode \in {31, 29, 28, 27, 26, 25} -> \* 0x1F 0x1D 0x1C 0x1B 0x1A 0x19
             [info EXCEPT !.is_resistance = TRUE]
      [] mode \in {40, 39} ->                 \* 0x28 0x27
             [info EXCEPT !.is_capacitance = TRUE]
      [] mode \in {13, 14, 17, 18, 22} ->     \* 0x0d 0x0e 0x11 0x12 0x16
             [info EXCEPT !.is_current = TRUE, !.is_dc = TRUE]
      [] mode \in {16, 19, 20, 24} ->         \* 0x10 0x13 0x14 0x18
             [info EXCEPT !.is_current = TRUE, !.is_ac = TRUE]
      [] mode = 36 ->                         \* 0x24
             [info EXCEPT !.is_continuity = TRUE]
      [] mode = 35 ->                         \* 0x23
             [info EXCEPT !.is_diode = TRUE]
      [] mode \in {43, 44} ->                 \* 0x2b 0x2c
             [info EXCEPT !.is_frequency = TRUE]
      [] mode = 34 ->                         \* 0x22
             [info EXCEPT !.is_duty_cycle = TRUE]
      [] OTHER -> info

\* static void parse_flags(const uint8_t *buf, struct ut8802e_info *info)
parse_flags(buf, info) ==
    [ParseMode(At(buf, 1), info) EXCEPT
        !.is_min  = Bit(At(buf, 6), 0),
        !.is_max  = Bit(At(buf, 6), 1),
        !.is_rel  = Bit(At(buf, 6), 3),
        !.is_hold = Bit(At(buf, 6), 4),
        !.is_ol   = Bit(At(buf, 6), 6),
        !.is_sign = Bit(At(buf, 6), 7)]

\* The count of flags_valid.
CategoryCount(info) ==
      (IF info.is_voltage THEN 1 ELSE 0)
    + (IF info.is_current THEN 1 ELSE 0)
    + (IF info.is_resistance THEN 1 ELSE 0)
    + (IF info.is_capacitance THEN 1 ELSE 0)
    + (IF info.is_frequency THEN 1 ELSE 0)
    + (IF info.is_temperature THEN 1 ELSE 0)
    + (IF info.is_continuity THEN 1 ELSE 0)
    + (IF info.is_diode THEN 1 ELSE 0)
    + (IF info.is_power THEN 1 ELSE 0)
    + (IF info.is_loop_current THEN 1 ELSE 0)

\* static gboolean flags_valid(const struct ut8802e_info *info)
flags_valid(info) == IF CategoryCount(info) > 1 THEN FALSE ELSE TRUE

\* The validator without its test of byte 0.
packet_valid_NoMagic(buf) == flags_valid(parse_flags(buf, ZeroInfo))

\* SR_PRIV gboolean sr_ut8802e_packet_valid(const uint8_t *buf)
sr_ut8802e_packet_valid(buf) ==
    IF At(buf, 0) # MAGIC
    THEN FALSE
    ELSE flags_valid(parse_flags(buf, ZeroInfo))

\* *floatval = INFINITY, under if (info->is_ol)
Overload(v, is_ol) == IF is_ol THEN [v EXCEPT !.inf = TRUE, !.neg = FALSE] ELSE v

\* *floatval *= info->is_sign ? -1 : 1
Signed(v, is_sign) == IF is_sign THEN [v EXCEPT !.neg = ~v.neg] ELSE v

\* *floatval *= 1000  and  *floatval /= 1000, under their conditions
Times1000(v, cond) ==
    IF cond /\ ~v.inf THEN [v EXCEPT !.exp = v.exp - 3] ELSE v
Div1000(v, cond) ==
    IF cond /\ ~v.inf THEN [v EXCEPT !.exp = v.exp + 3] ELSE v

\* intval / powf(10, *exponent)
Quotient(intval, exponent) ==
    [inf |-> FALSE, neg |-> FALSE, mant |-> intval, exp |-> exponent]

\* intval = bcd_to_dec(buf[4]) * 10000 + bcd_to_dec(buf[3]) * 100 + ...
Intval(buf) ==
    bcd_to_dec(At(buf, 4)) * 10000 + bcd_to_dec(At(buf, 3)) * 100
    + bcd_to_dec(At(buf, 2))

\* parse_value with the sign applied before the overload test, so that an
\* overload is always +infinity.
parse_value_SignFirst(buf, info) ==
    [ret |-> "SR_OK",
     floatval |->
        Div1000(
          Times1000(
            Overload(Signed(Quotient(Intval(buf), At(buf, 5) % 16),
                            info.is_sign),
                     info.is_ol),
            info.is_frequency /\ At(buf, 1) = 44),
          info.is_capacitance /\ At(buf, 1) = 39),
     exponent |-> At(buf, 5) % 16]

\* static int parse_value(buf, info, floatval, exponent)
parse_value(buf, info) ==
    [ret |-> "SR_OK",
     floatval |->
        Div1000(
          Times1000(
            Signed(Overload(Quotient(Intval(buf), At(buf, 5) % 16),
                            info.is_ol),
                   info.is_sign),
            info.is_frequency /\ At(buf, 1) = 44),
          info.is_capacitance /\ At(buf, 1) = 39),
     exponent |-> At(buf, 5) % 16]

\* v < 0.0 and v > 60.0 of handle_flags.  The digits are below 10^7, so
\* mant / 10^exp is below 60 once exp is 6 or more.
LtZero(v) == v.neg /\ (v.inf \/ v.mant > 0)

\* v >= 60.0 in the place of v > 60.0.
GtSixty_Ge(v) ==
    /\ ~v.neg
    /\ \/ v.inf
       \/ v.exp \in 0..5 /\ v.mant >= 60 * (10 ^ v.exp)

GtSixty(v) ==
    /\ ~v.neg
    /\ \/ v.inf
       \/ v.exp \in 0..5 /\ v.mant > 60 * (10 ^ v.exp)
       \/ v.exp < 0 /\ v.mant * (10 ^ (0 - v.exp)) > 60

FloatConst(n) == [inf |-> FALSE, neg |-> FALSE, mant |-> n, exp |-> 0]

\* sr_analog_init(&analog, &encoding, &meaning, &spec, 0)
AnalogInit == [mq |-> "0", unit |-> "0", mqflags |-> {}, digits |-> 0,
               spec_digits |-> 0]

\* if (cond) { analog->meaning->mq = mq; analog->meaning->unit = unit; }
SetMq(a, cond, mq, unit) ==
    IF cond THEN [a EXCEPT !.mq = mq, !.unit = unit] ELSE a

\* The measurement modes of handle_flags: mq and unit, each later
\* assignment overwriting the earlier ones (the innermost is the first).
MqUnit(info, a) ==
    SetMq(SetMq(SetMq(SetMq(SetMq(SetMq(SetMq(SetMq(SetMq(SetMq(SetMq(SetMq(a,
      info.is_voltage, "SR_MQ_VOLTAGE", "SR_UNIT_VOLT"),
      info.is_current, "SR_MQ_CURRENT", "SR_UNIT_AMPERE"),
      info.is_resistance, "SR_MQ_RESISTANCE", "SR_UNIT_OHM"),
      info.is_frequency, "SR_MQ_FREQUENCY", "SR_UNIT_HERTZ"),
      info.is_capacitance, "SR_MQ_CAPACITANCE", "SR_UNIT_FARAD"),
      info.is_temperature /\ info.is_celsius,
          "SR_MQ_TEMPERATURE", "SR_UNIT_CELSIUS"),
      info.is_temperature /\ info.is_fahrenheit,
          "SR_MQ_TEMPERATURE", "SR_UNIT_FAHRENHEIT"),
      info.is_continuity, "SR_MQ_CONTINUITY", "SR_UNIT_BOOLEAN"),
      info.is_diode, "SR_MQ_VOLTAGE", "SR_UNIT_VOLT"),
      info.is_duty_cycle, "SR_MQ_DUTY_CYCLE", "SR_UNIT_PERCENTAGE"),
      info.is_power, "SR_MQ_POWER", "SR_UNIT_WATT"),
      info.is_loop_current, "SR_MQ_CURRENT", "SR_UNIT_PERCENTAGE")

\* The mqflags of handle_flags without SR_MQFLAG_RMS for an AC reading.
MqFlags_NoRms(info) ==
       (IF info.is_ac THEN {"SR_MQFLAG_AC"} ELSE {})
  \cup (IF info.is_dc THEN {"SR_MQFLAG_DC"} ELSE {})
  \cup (IF info.is_diode THEN {"SR_MQFLAG_DIODE", "SR_MQFLAG_DC"} ELSE {})
  \cup (IF info.is_min THEN {"SR_MQFLAG_MIN"} ELSE {})
  \cup (IF info.is_max THEN {"SR_MQFLAG_MAX"} ELSE {})
  \cup (IF info.is_rel THEN {"SR_MQFLAG_RELATIVE"} ELSE {})
  \cup (IF info.is_hold THEN {"SR_MQFLAG_HOLD"} ELSE {})

\* The mqflags of handle_flags.
MqFlags(info) ==
       (IF info.is_ac THEN {"SR_MQFLAG_AC", "SR_MQFLAG_RMS"} ELSE {})
  \cup (IF info.is_dc THEN {"SR_MQFLAG_DC"} ELSE {})
  \cup (IF info.is_diode THEN {"SR_MQFLAG_DIODE", "SR_MQFLAG_DC"} ELSE {})
  \cup (IF info.is_min THEN {"SR_MQFLAG_MIN"} ELSE {})
  \cup (IF info.is_max THEN {"SR_MQFLAG_MAX"} ELSE {})
  \cup (IF info.is_rel THEN {"SR_MQFLAG_RELATIVE"} ELSE {})
  \cup (IF info.is_hold THEN {"SR_MQFLAG_HOLD"} ELSE {})

\* static void handle_flags(analog, floatval, info)
handle_flags(analog, floatval, info) ==
    [analog |-> [MqUnit(info, analog) EXCEPT
                    !.mqflags = analog.mqflags \cup MqFlags(info)],
     floatval |-> IF info.is_continuity
                  THEN (IF LtZero(floatval) \/ GtSixty(floatval)
                        THEN FloatConst(0) ELSE FloatConst(1))
                  ELSE floatval]

\* memset(info_local, 0, sizeof(struct ut8802e_info)) left out.
Memset0_Skip(info) == info

\* memset(info_local, 0, sizeof(struct ut8802e_info)): whatever the block
\* held, every flag is cleared.
Memset0(info) == ZeroInfo

\* SR_PRIV int sr_ut8802e_parse(buf, floatval, analog, info): info is the
\* block the caller allocated, with the content it happens to hold.
sr_ut8802e_parse(buf, analog, info) ==
    IF ~sr_ut8802e_packet_valid(buf)
    THEN [ret |-> "SR_ERR", analog |-> analog, floatval |-> FloatConst(0)]
    ELSE LET info_local == parse_flags(buf, Memset0(info))
             pv == parse_value(buf, info_local)
             hf == handle_flags(analog, pv.floatval, info_local)
         IN  [ret |-> "SR_OK",
              analog |-> [hf.analog EXCEPT !.digits = pv.exponent,
                                           !.spec_digits = pv.exponent],
              floatval |-> hf.floatval]

(***************************************************************************)
(* hardware/uni-t-ut8802e/protocol.c                                       *)
(***************************************************************************)

VARIABLES
    first_run,   \* devc->first_run
    pbuf,        \* devc->protocol_buf[0 .. devc->buflen - 1]
    bufoffset,   \* devc->bufoffset
    source,      \* uni_t_ut8802e_receive_data is a source of the session
    wire,        \* bytes the meter has sent that no chunk has carried yet
    sent,        \* every item the meter has sent, in order
    emitted,     \* every analog packet handed to sr_session_send, in order
    ret,         \* what the last call of get_and_handle_data returned
    chunk,       \* buf[0 .. buf[0]] of the chunk the last call read, if any
    steps,       \* the iterations of the last call's packet loop
    stored,      \* the highest index of protocol_buf the last call wrote, or -1
    ub,          \* a call has read or written outside an array
    probe,       \* parser alone: the 8 bytes handed to it
    parsed       \* parser alone: what it made of probe

vars == <<first_run, pbuf, bufoffset, source, wire, sent, emitted, ret,
          chunk, steps, stored, ub, probe, parsed>>

framer == <<first_run, pbuf, bufoffset, source, wire, sent, emitted, ret,
            chunk, steps, stored, ub>>

\* devc->buflen
buflen == Len(pbuf)

\* static void decode_packet(struct sr_dev_inst *sdi, const uint8_t *buf),
\* with info = g_malloc(dmm->info_size) returning a block that holds info:
\* the analog packets it sends to the session, none or one.  win records
\* the bytes the packet was parsed from.
decode_packet_info(buf, info) ==
    LET r == sr_ut8802e_parse(buf, AnalogInit, info)
    IN  IF r.ret # "SR_OK"
        THEN <<>>
        ELSE <<[mq |-> r.analog.mq, unit |-> r.analog.unit,
                mqflags |-> r.analog.mqflags, digits |-> r.analog.digits,
                value |-> r.floatval, win |-> buf]>>

\* decode_packet in the packet loop.  g_malloc does not initialise the
\* block and the parser's memset is the first access to it; the block is
\* taken to hold zeroes here, and SpecParse hands the parser every block
\* of MallocBlocks.
decode_packet(buf) == decode_packet_info(buf, ZeroInfo)

\* pbuf + devc->bufoffset, as the packet_size bytes the callbacks read.
Window(pb, off) == SubSeq(pb, off + 1, off + UT8802E_PACKET_SIZE)

\* The scan offset moved by a whole packet whatever the validator said.
Advance_AlwaysPacket(valid) == UT8802E_PACKET_SIZE

\* The scan offset moved by one byte whatever the validator said.
Advance_AlwaysOne(valid) == 1

\* The scan offset left where it is on a window found invalid.
Advance_Stuck(valid) == IF valid THEN UT8802E_PACKET_SIZE ELSE 0

\* devc->bufoffset += dmm->packet_size;  or  devc->bufoffset++;
Advance(valid) == IF valid THEN UT8802E_PACKET_SIZE ELSE 1

\* while ((devc->buflen - devc->bufoffset) >= dmm->packet_size) { ... }
RECURSIVE PacketLoop(_, _, _, _)
PacketLoop(pb, off, out, trace) ==
    IF Len(pb) - off >= UT8802E_PACKET_SIZE
    THEN LET valid == sr_ut8802e_packet_valid(Window(pb, off))
             sentNow == IF valid THEN decode_packet(Window(pb, off)) ELSE <<>>
         IN  PacketLoop(pb, off + Advance(valid), out \o sentNow,
                        Append(trace, [off |-> off, win |-> Window(pb, off),
                                       valid |-> valid,
                                       sent |-> Len(sentNow)]))
    ELSE [bufoffset |-> off, out |-> out, steps |-> trace]

\* buflen -= bufoffset without the memmove: the first bytes stay.
MoveRemaining_NoMove(pb, off) ==
    IF off < Len(pb) THEN SubSeq(pb, 1, Len(pb) - off) ELSE <<>>

\* The move taken from pbuf + bufoffset + 1.
MoveRemaining_FromNext(pb, off) ==
    IF off < Len(pb) THEN SubSeq(pb, off + 2, Len(pb)) ELSE <<>>

\* Nothing moved and buflen left as it was.
MoveRemaining_KeepAll(pb, off) == pb

\* "Move remaining bytes to beginning of buffer."
MoveRemaining(pb, off) ==
    IF off < Len(pb) THEN SubSeq(pb, off + 1, Len(pb)) ELSE <<>>

\* The copy loop stopping one byte short of num_databytes_in_chunk.
AppendChunk_DropLast(pb, buf) == pb \o SubSeq(buf, 2, At(buf, 0))

\* for (i = 0; i < num_databytes_in_chunk; i++, devc->buflen++)
\*         pbuf[devc->buflen] = buf[1 + i];
AppendChunk(pb, buf) == pb \o SubSeq(buf, 2, At(buf, 0) + 1)

\* A window found invalid reported to the caller as an error.
LoopResult_Strict(loop) ==
    IF \E i \in 1..Len(loop.steps) : ~loop.steps[i].valid
    THEN "SR_ERR" ELSE "SR_OK"

\* What get_and_handle_data returns once the packet loop has run.
LoopResult(loop) == "SR_OK"

\* The scan offset reset before the test for an empty chunk.
EmptyChunk_ResetOffset(pb, off) ==
    [ret |-> "SR_OK", pbuf |-> pb, bufoffset |-> 0, out |-> <<>>,
     steps |-> <<>>, top |-> -1]

\* "If there are no data bytes just return (without error)."
EmptyChunk(pb, off) ==
    [ret |-> "SR_OK", pbuf |-> pb, bufoffset |-> off, out |-> <<>>,
     steps |-> <<>>, top |-> -1]

\* get_and_handle_data from the point where the chunk has been read.
HandleChunk(pb, off, buf) ==
    IF At(buf, 0) = 0
    THEN EmptyChunk(pb, off)
    ELSE LET filled == AppendChunk(pb, buf)
             loop == PacketLoop(filled, 0, <<>>, <<>>)
         IN  [ret |-> LoopResult(loop),
              pbuf |-> MoveRemaining(filled, loop.bufoffset),
              bufoffset |-> loop.bufoffset,
              out |-> loop.out,
              steps |-> loop.steps,
              top |-> Len(filled) - 1]

(***************************************************************************)
(* What the meter sends.  Packets leave the meter whole; a stray byte      *)
(* stands for what is left of a packet whose other bytes were lost.        *)
(***************************************************************************)

\* AC 03 34 12 00 32 00 AC: DC 2V range, digits 01234, two decimals.
PktDcVolt == <<172, 3, 52, 18, 0, 50, 0, 172>>
\* AC 1B 00 00 00 30 C4 00: 20K ohm range, overload, sign, bit 2 set.
PktOhmOl == <<172, 27, 0, 0, 0, 48, 196, 0>>

Packets == {PktDcVolt, PktOhmOl}

\* 0xAC and 0x03.
StrayBytes == {172, 3}

Items == Packets \cup {<<b>> : b \in StrayBytes}

RECURSIVE Flatten(_)
Flatten(ss) == IF ss = <<>> THEN <<>> ELSE Head(ss) \o Flatten(Tail(ss))

Min(a, b) == IF a < b THEN a ELSE b

\* memset(pbuf, 0x00, DMM_BUFSIZE), on the bytes the model keeps.
Zeroed(pb) == [i \in 1..Len(pb) |-> 0]

(***************************************************************************)
(* api.c: scan() allocates the device context zeroed, first_run = TRUE.    *)
(***************************************************************************)
Init ==
    /\ first_run = TRUE
    /\ pbuf = <<>>
    /\ bufoffset = 0
    /\ source = FALSE
    /\ wire = <<>>
    /\ sent = <<>>
    /\ emitted = <<>>
    /\ ret = "none"
    /\ chunk = <<>>
    /\ steps = <<>>
    /\ stored = -1
    /\ ub = FALSE
    /\ probe = <<>>
    /\ parsed = [done |-> FALSE, block |-> ZeroInfo]

\* The meter puts one more item on the serial line.  It does so once the
\* line holds less than one chunk can carry: what a chunk can carry is the
\* same whether the bytes behind it are on the line already or come later.
MeterSend ==
    /\ ~ub
    /\ Len(sent) < MaxItems
    /\ Len(wire) < CHUNK_SIZE - 1
    /\ \E item \in Items :
          /\ sent' = Append(sent, item)
          /\ wire' = wire \o item
    /\ UNCHANGED <<first_run, pbuf, bufoffset, source, emitted, ret, chunk,
                   steps, stored, ub, probe, parsed>>

\* static int dev_acquisition_start(const struct sr_dev_inst *sdi)
dev_acquisition_start ==
    /\ ~ub
    /\ ~source
    /\ source' = TRUE
    /\ UNCHANGED <<first_run, pbuf, bufoffset, wire, sent, emitted, ret,
                   chunk, steps, stored, ub, probe, parsed>>

\* static int dev_acquisition_stop(struct sr_dev_inst *sdi)
dev_acquisition_stop ==
    /\ ~ub
    /\ source
    /\ source' = FALSE
    /\ UNCHANGED <<first_run, pbuf, bufoffset, wire, sent, emitted, ret,
                   chunk, steps, stored, ub, probe, parsed>>

\* uni_t_ut8802e_receive_data when hid_chip_init fails: get_and_handle_data
\* returns SR_ERR, the callback returns FALSE and the session drops it.
ReceiveInitFailed ==
    /\ ~ub
    /\ source
    /\ first_run
    /\ ret' = "SR_ERR"
    /\ source' = FALSE
    /\ chunk' = <<>>
    /\ steps' = <<>>
    /\ stored' = -1
    /\ UNCHANGED <<first_run, pbuf, bufoffset, wire, sent, emitted, ub,
                   probe, parsed>>

\* uni_t_ut8802e_receive_data when libusb_interrupt_transfer fails.
ReceiveUsbError ==
    /\ ~ub
    /\ source
    /\ first_run' = FALSE
    /\ pbuf' = IF first_run THEN Zeroed(pbuf) ELSE pbuf
    /\ ret' = "SR_ERR"
    /\ source' = FALSE
    /\ chunk' = <<>>
    /\ steps' = <<>>
    /\ stored' = -1
    /\ UNCHANGED <<bufoffset, wire, sent, emitted, ub, probe, parsed>>

\* uni_t_ut8802e_receive_data when a chunk of n data bytes is read; limit is
\* what sr_sw_limits_check answers afterwards.
ReceiveChunk ==
    /\ ~ub
    /\ source
    /\ \E n \in 0..Min(CHUNK_SIZE - 1, Len(wire)), limit \in BOOLEAN :
          LET buf == <<n>> \o SubSeq(wire, 1, n)
              pb == IF first_run THEN Zeroed(pbuf) ELSE pbuf
              r == HandleChunk(pb, bufoffset, buf)
          IN  /\ first_run' = FALSE
              /\ wire' = SubSeq(wire, n + 1, Len(wire))
              /\ chunk' = buf
              /\ pbuf' = r.pbuf
              /\ bufoffset' = r.bufoffset
              /\ emitted' = emitted \o r.out
              /\ steps' = r.steps
              /\ ret' = r.ret
              /\ stored' = r.top
              /\ source' = ~limit
    /\ UNCHANGED <<sent, ub, probe, parsed>>

\* A chunk's count byte is whatever the device put there.
OversizeCounts == {255}

\* uni_t_ut8802e_receive_data when buf[0] is beyond the CHUNK_SIZE - 1 data
\* bytes buf[] can hold.  The copy loop reads buf[1 + i] past the end of
\* buf[] and stores as far as pbuf[buflen + buf[0] - 1], nothing stopping it
\* at DMM_BUFSIZE.  The behaviour is undefined from there on: the call
\* returns (SR_OK is the one value it returns after a chunk was read) or
\* the process is killed, and the model follows the run no further.
ReceiveOversize ==
    /\ ~ub
    /\ source
    /\ \E c \in OversizeCounts, outcome \in {"SR_OK", "killed"} :
          LET n == Min(CHUNK_SIZE - 1, Len(wire))
          IN  /\ chunk' = <<c>> \o SubSeq(wire, 1, n)
              /\ wire' = SubSeq(wire, n + 1, Len(wire))
              /\ stored' = buflen + c - 1
              /\ ret' = outcome
    /\ first_run' = FALSE
    /\ ub' = TRUE
    /\ UNCHANGED <<pbuf, bufoffset, source, sent, emitted, steps, probe,
                   parsed>>

Next ==
    \/ MeterSend
    \/ dev_acquisition_start
    \/ dev_acquisition_stop
    \/ ReceiveInitFailed
    \/ ReceiveUsbError
    \/ ReceiveChunk
    \/ ReceiveOversize

Spec == Init /\ [][Next]_vars

(***************************************************************************)
(* Properties of the framer.                                               *)
(***************************************************************************)

\* The bytes the meter has sent, and how many of them chunks have carried.
Stream == Flatten(sent)
Delivered == Len(Stream) - Len(wire)

\* The meter has sent stray bytes, then one packet as item k, then fewer
\* than 8 stray bytes, and every byte has been carried to the framer.
ResyncCase(k) ==
    /\ ~ub
    /\ wire = <<>>
    /\ k \in 1..Len(sent)
    /\ sent[k] \in Packets
    /\ \A j \in 1..Len(sent) : j # k => Len(sent[j]) = 1
    /\ Len(sent) - k < UT8802E_PACKET_SIZE

GarbageBefore(k) == Flatten(SubSeq(sent, 1, k - 1))
TrailingAfter(k) == Flatten(SubSeq(sent, k + 1, Len(sent)))

\* Exactly the packet sent as item k was emitted, and what is left in the
\* buffer is as long as what followed it.
ResyncOutcome(k) ==
    /\ Len(emitted) = 1
    /\ emitted = decode_packet(sent[k])
    /\ buflen = Len(TrailingAfter(k))

\* C1, as claimed: after any N garbage bytes (0xAC among them or not), one
\* well-formed packet and T < 8 trailing bytes, exactly one Measurement has
\* been emitted, it is the decoding of that packet, and the buffer holds T
\* bytes.
ResyncAnyGarbage ==
    \A k \in 1..Len(sent) : ResyncCase(k) => ResyncOutcome(k)

\* C1, amended: the same when none of the N garbage bytes is 0xAC.
ResyncGarbageWithoutMagic ==
    \A k \in 1..Len(sent) :
        (ResyncCase(k) /\ \A i \in 1..(k - 1) : GarbageBefore(k)[i] # MAGIC)
            => ResyncOutcome(k)

\* C1 witness: one garbage byte or more, none 0xAC, then the packet, then
\* trailing bytes, all delivered, and one Measurement emitted.
ResyncWitness ==
    \E k \in 2..Len(sent) :
        /\ ResyncCase(k)
        /\ \A i \in 1..(k - 1) : GarbageBefore(k)[i] # MAGIC
        /\ Len(sent) > k
        /\ Len(emitted) = 1

\* C2: when the first thing the meter sends is a well-formed packet, no
\* call emits anything while fewer than 8 bytes have been delivered, and the
\* call that delivers the 8th byte emits exactly the decoding of the packet
\* and leaves in the buffer exactly the bytes that followed the packet in
\* its chunk, in order.
ChunkSplitting ==
    [][ (~ub' /\ Len(sent) >= 1 /\ sent[1] \in Packets) =>
          /\ Delivered' < UT8802E_PACKET_SIZE => emitted' = <<>>
          /\ (Delivered < UT8802E_PACKET_SIZE
                /\ Delivered' >= UT8802E_PACKET_SIZE) =>
                /\ Len(emitted') = 1
                /\ emitted' = decode_packet(sent[1])
                /\ pbuf' = SubSeq(Stream', UT8802E_PACKET_SIZE + 1, Delivered')
      ]_vars

\* C2 witness: the packet came as 5 bytes and then 3 bytes with 2 more
\* behind them in the same chunk; one Measurement, 2 bytes left.
ChunkSplittingWitness ==
    /\ ~ub
    /\ Len(sent) >= 1 /\ sent[1] \in Packets
    /\ Delivered = 10
    /\ chunk # <<>> /\ At(chunk, 0) = 5
    /\ Len(emitted) = 1
    /\ buflen = 2

\* The function byte is one the switch of parse_flags knows.
InTable(mode) == ParseMode(mode, ZeroInfo) # ZeroInfo

\* C3, as claimed: a window whose function byte is outside the table is
\* reported invalid, so nothing is emitted for it and no Measurement
\* without a quantity is emitted.
UnknownModeRejected ==
    /\ \A i \in 1..Len(steps) :
          ~InTable(At(steps[i].win, 1)) => (~steps[i].valid /\ steps[i].sent = 0)
    /\ \A i \in 1..Len(emitted) :
          InTable(At(emitted[i].win, 1)) /\ emitted[i].mq # "0"

\* C4: a window whose byte 0 is not 0xAC is reported invalid and nothing is
\* emitted for it; every Measurement emitted was parsed from bytes that
\* begin with 0xAC.
MagicRequired ==
    /\ \A i \in 1..Len(steps) :
          At(steps[i].win, 0) # MAGIC => (~steps[i].valid /\ steps[i].sent = 0)
    /\ \A i \in 1..Len(emitted) : At(emitted[i].win, 0) = MAGIC

\* C4 witness: the last call looked at a window not beginning with 0xAC,
\* and a Measurement has been emitted.
MagicRequiredWitness ==
    /\ \E i \in 1..Len(steps) : At(steps[i].win, 0) # MAGIC
    /\ emitted # <<>>

\* C5, as claimed: no byte is stored at an index >= capacity; a call whose
\* chunk would take the buffer beyond its capacity returns a failure.
OverflowEscalated ==
    /\ stored < DMM_BUFSIZE
    /\ (ub /\ buflen + At(chunk, 0) > DMM_BUFSIZE) => ret = "SR_ERR"

\* C6: a call that reads a chunk of zero data bytes returns SR_OK and leaves
\* what was emitted, the buffer, its length and the scan offset as they were.
EmptyChunkNoOp ==
    [][ chunk' = <<0>> =>
          /\ ret' = "SR_OK"
          /\ emitted' = emitted
          /\ pbuf' = pbuf
          /\ bufoffset' = bufoffset
      ]_vars

\* C6 witness: an empty chunk was read while the buffer held bytes and the
\* scan offset was not 0.
EmptyChunkWitness ==
    /\ chunk = <<0>>
    /\ ret = "SR_OK"
    /\ pbuf # <<>>
    /\ bufoffset > 0

\* How many Measurements the steps of a packet loop sent, and the windows
\* it found valid, in the order of the steps.
RECURSIVE SentBy(_)
SentBy(trace) ==
    IF trace = <<>> THEN 0 ELSE Head(trace).sent + SentBy(Tail(trace))

RECURSIVE ValidWindows(_)
ValidWindows(trace) ==
    IF trace = <<>> THEN <<>>
    ELSE (IF Head(trace).valid THEN <<Head(trace).win>> ELSE <<>>)
         \o ValidWindows(Tail(trace))

\* Where the scan offset stood after step i of the last call.
OffsetAfter(i) == IF i < Len(steps) THEN steps[i + 1].off ELSE bufoffset

\* C7: in the last call's packet loop a valid window sent exactly one
\* Measurement and moved the scan offset by 8, an invalid one sent none and
\* moved it by 1; the Measurements the call sent are the last ones emitted,
\* one per valid window, in the order of the windows' offsets.
DrainStepOrder ==
    /\ \A i \in 1..Len(steps) :
          /\ steps[i].valid =>
                (steps[i].sent = 1
                   /\ OffsetAfter(i) = steps[i].off + UT8802E_PACKET_SIZE)
          /\ ~steps[i].valid =>
                (steps[i].sent = 0 /\ OffsetAfter(i) = steps[i].off + 1)
          /\ i < Len(steps) => steps[i].off < steps[i + 1].off
    /\ LET k == SentBy(steps)
           wins == ValidWindows(steps)
       IN  /\ k <= Len(emitted)
           /\ k = Len(wins)
           /\ \A j \in 1..k : emitted[Len(emitted) - k + j].win = wins[j]

\* C7 witness: the last call skipped a window and then sent a Measurement.
DrainStepWitness ==
    \E i, j \in 1..Len(steps) : i < j /\ ~steps[i].valid /\ steps[j].valid

\* C8, as claimed: whenever an acquisition starts the buffer is empty.
StartResetsBuffer ==
    [][ (~source /\ source') => pbuf' = <<>> ]_vars

\* C9: a call that read a chunk of 1..7 data bytes returned SR_OK whatever
\* the bytes were, and sent nothing for the windows it found invalid.
BadPacketNoError ==
    (~ub /\ chunk # <<>> /\ At(chunk, 0) \in 1..(CHUNK_SIZE - 1)) =>
        /\ ret = "SR_OK"
        /\ \A i \in 1..Len(steps) :
              ~steps[i].valid =>
                  (steps[i].sent = 0 /\ OffsetAfter(i) = steps[i].off + 1)

\* C9 witness: the last call read data bytes, found a window invalid and
\* returned SR_OK.
BadPacketWitness ==
    /\ ~ub
    /\ chunk # <<>> /\ At(chunk, 0) \in 1..(CHUNK_SIZE - 1)
    /\ \E i \in 1..Len(steps) : ~steps[i].valid
    /\ ret = "SR_OK"

(***************************************************************************)
(* The parser alone: one window of 8 bytes is handed to the validator and, *)
(* if it is valid, to the parser, as the packet loop does.                 *)
(***************************************************************************)

\* 0xAC, and 0x03 for a window that does not begin a packet.
ProbeByte0 == {172, 3}
\* One function byte or more of each case of parse_flags, and 0x00.
ProbeModes == {3, 9, 27, 39, 40, 22, 16, 36, 35, 43, 44, 34, 0}
\* Digit bytes: 0x00 0x34 0x99 0xFF, 0x00 0x12, 0x00 0x01.
ProbeByte2 == {0, 52, 153, 255}
ProbeByte3 == {0, 18}
ProbeByte4 == {0, 1}
\* 0x30 0x31 0x32 0x3F: 0, 1, 2 and 15 decimals.
ProbeByte5 == {48, 49, 50, 63}
\* Flags: none, OL, sign, OL+sign, OL+sign+bit 2, min+max+rel+hold,
\* bits 2 and 5.
ProbeByte6 == {0, 64, 128, 192, 196, 27, 36}
ProbeByte7 == {0, 172}

ProbeWindows ==
    {<<b0, b1, b2, b3, b4, b5, b6, b7>> :
        b0 \in ProbeByte0, b1 \in ProbeModes, b2 \in ProbeByte2,
        b3 \in ProbeByte3, b4 \in ProbeByte4, b5 \in ProbeByte5,
        b6 \in ProbeByte6, b7 \in ProbeByte7}

\* Every function byte, with digits 1234, exponent 2 and no flag.
ModeWindows == {<<172, m, 52, 18, 0, 50, 0, 0>> : m \in 0 .. 255}

\* Every value of one digit byte, the other two zero, for DC voltage,
\* continuity, the two capacitance ranges and the two frequency ranges,
\* with exponents 0 and 1.
DigitModes == {3, 36, 39, 40, 43, 44}
DigitWindows ==
    UNION {{<<172, m, b, 0, 0, e, 0, 0>>, <<172, m, 0, b, 0, e, 0, 0>>,
            <<172, m, 0, 0, b, e, 0, 0>>} :
              m \in DigitModes, b \in 0 .. 255, e \in {48, 49}}

\* Every flags byte, for DC voltage, AC voltage, diode and continuity.
FlagModes == {3, 9, 35, 36}
FlagWindows ==
    {<<172, m, 52, 18, 0, 50, f, 0>> : m \in FlagModes, f \in 0 .. 255}

\* Every value of byte 5 and every value of byte 7, for DC voltage.
TailWindows ==
    UNION {{<<172, 3, 52, 18, 0, b, 0, 0>>, <<172, 3, 52, 18, 0, 50, 0, b>>} :
              b \in 0 .. 255}

ProbeAll ==
    ProbeWindows \cup ModeWindows \cup DigitWindows \cup FlagWindows
                 \cup TailWindows

\* What the block g_malloc returns may hold: zeroes, or the flags an
\* earlier packet left in a block since freed (AC voltage with min, max,
\* rel, hold, overload and sign; continuity).
MallocBlocks ==
    {ZeroInfo,
     parse_flags(<<172, 9, 0, 0, 0, 48, 219, 0>>, ZeroInfo),
     parse_flags(<<172, 36, 0, 0, 0, 48, 0, 0>>, ZeroInfo)}

InitParse ==
    /\ first_run = TRUE
    /\ pbuf = <<>>
    /\ bufoffset = 0
    /\ source = FALSE
    /\ wire = <<>>
    /\ sent = <<>>
    /\ emitted = <<>>
    /\ ret = "none"
    /\ chunk = <<>>
    /\ steps = <<>>
    /\ stored = -1
    /\ ub = FALSE
    /\ probe \in ProbeAll
    /\ parsed \in {[done |-> FALSE, block |-> b] : b \in MallocBlocks}

\* if (dmm->packet_valid(w)) decode_packet(sdi, w), keeping what parse_flags
\* and parse_value made of the window on the way.
ParseProbe ==
    /\ ~parsed.done
    /\ parsed' =
          IF sr_ut8802e_packet_valid(probe)
          THEN LET info == parse_flags(probe, Memset0(parsed.block))
               IN  [done |-> TRUE, valid |-> TRUE, info |-> info,
                    pv |-> parse_value(probe, info),
                    out |-> decode_packet_info(probe, parsed.block),
                    block |-> parsed.block]
          ELSE [done |-> TRUE, valid |-> FALSE, out |-> <<>>,
                block |-> parsed.block]
    /\ UNCHANGED <<framer, probe>>

NextParse == ParseProbe

SpecParse == InitParse /\ [][NextParse]_vars

\* The window with the sign bit of its flags byte cleared.
Unsigned(w) == [w EXCEPT ![7] = IF Bit(w[7], 7) THEN w[7] - 128 ELSE w[7]]

\* C10: for a window found valid, with the overload bit (byte 6 bit 6) set
\* the value parse_value gives is infinite whatever the digits and the
\* exponent are, +infinity with the sign bit (byte 6 bit 7) clear and
\* -infinity with it set; with the overload bit clear the value is finite,
\* and with the sign bit set it is the negation of the value the same
\* window has with the sign bit clear.
OverloadAndSign ==
    (parsed.done /\ parsed.valid) =>
        LET ol == Bit(At(probe, 6), 6)
            sign == Bit(At(probe, 6), 7)
            v == parsed.pv.floatval
            u == parse_value(Unsigned(probe),
                             parse_flags(Unsigned(probe), ZeroInfo)).floatval
        IN  /\ ol => (v.inf /\ v.neg = sign)
            /\ ~ol => /\ ~v.inf
                      /\ ~u.neg
                      /\ v = [u EXCEPT !.neg = sign]

\* C10 witness: a valid window with overload and sign set and digits other
\* than 0 was parsed to -infinity.
OverloadAndSignWitness ==
    /\ parsed.done /\ parsed.valid
    /\ Bit(At(probe, 6), 6) /\ Bit(At(probe, 6), 7)
    /\ At(probe, 2) # 0
    /\ parsed.pv.floatval.inf /\ parsed.pv.floatval.neg

(***************************************************************************)
(* Continuity                                                              *)
(***************************************************************************)

\* The probe was found valid and is a continuity window (function 0x24).
ContinuityParsed == parsed.done /\ parsed.valid /\ At(probe, 1) = 36

\* v is finite and at most 60 in magnitude (the digits are below 10^7).
WithinSixty(v) == ~v.inf /\ (v.exp >= 6 \/ v.mant <= 60 * (10 ^ v.exp))

\* C11 as stated: in continuity mode the value sent is 1.0 if the decoded
\* value v has 0 < v <= 60 and 0.0 otherwise, v = 0 included, and the unit
\* is boolean.
ContinuityOpenAtZero ==
    ContinuityParsed =>
        LET v == parsed.pv.floatval
        IN  /\ parsed.out[1].unit = "SR_UNIT_BOOLEAN"
            /\ parsed.out[1].value =
                  IF ~v.neg /\ v.mant > 0 /\ WithinSixty(v)
                  THEN FloatConst(1) ELSE FloatConst(0)

\* C11 amended: in continuity mode the value sent is 1.0 if the decoded
\* value v has 0 <= v <= 60, a zero of either sign included, and 0.0 if
\* v < 0, v > 60 or v is an overload infinity; the unit is boolean.
ContinuityClosedAtZero ==
    ContinuityParsed =>
        LET v == parsed.pv.floatval
        IN  /\ parsed.out[1].unit = "SR_UNIT_BOOLEAN"
            /\ parsed.out[1].mq = "SR_MQ_CONTINUITY"
            /\ parsed.out[1].value =
                  IF WithinSixty(v) /\ (v.mant = 0 \/ ~v.neg)
                  THEN FloatConst(1) ELSE FloatConst(0)

\* A continuity window with the digits 000060 and exponent 0 was sent as
\* 1.0: the upper end of the range.
ContinuityWitness ==
    /\ ContinuityParsed
    /\ parsed.pv.floatval = [inf |-> FALSE, neg |-> FALSE, mant |-> 60,
                             exp |-> 0]
    /\ parsed.out[1].value = FloatConst(1)

(***************************************************************************)
(* The function byte                                                       *)
(***************************************************************************)

\* The table of function bytes: the category and the AC/DC modifier of a
\* byte, "none" where the table has no row for it.
TableRow(mode) ==
    CASE mode \in 9 .. 12 -> <<"is_voltage", "AC">>            \* 0x09-0x0c
      [] mode \in {1, 3, 4, 5, 6} -> <<"is_voltage", "DC">>
      [] mode \in 25 .. 31 -> <<"is_resistance", "none">>      \* 0x19-0x1F
      [] mode \in {39, 40} -> <<"is_capacitance", "none">>     \* 0x27 0x28
      [] mode \in {13, 14, 17, 18, 22} -> <<"is_current", "DC">>
      [] mode \in {16, 19, 20, 24} -> <<"is_current", "AC">>
      [] mode = 36 -> <<"is_continuity", "none">>              \* 0x24
      [] mode = 35 -> <<"is_diode", "none">>                   \* 0x23
      [] mode \in {43, 44} -> <<"is_frequency", "none">>       \* 0x2b 0x2c
      [] mode = 34 -> <<"is_duty_cycle", "none">>              \* 0x22
      [] OTHER -> <<"none", "none">>

CategoryBits ==
    {"is_voltage", "is_current", "is_resistance", "is_capacitance",
     "is_frequency", "is_temperature", "is_continuity", "is_diode",
     "is_duty_cycle", "is_power", "is_loop_current"}

\* The category bits set in info.
Categories(info) == {c \in CategoryBits : info[c]}

\* C12: for every function byte 0x00-0xFF the flag decoder sets the
\* category and the AC/DC modifier the table lists for it, 0x19-0x1F being
\* resistance without exception, sets no category bit for a byte the table
\* does not list, and never sets more than one category bit.
ModeTable ==
    (parsed.done /\ parsed.valid) =>
        LET row == TableRow(At(probe, 1))
            info == parsed.info
        IN  /\ Categories(info) = {row[1]} \ {"none"}
            /\ info.is_ac = (row[2] = "AC")
            /\ info.is_dc = (row[2] = "DC")
            /\ Cardinality(Categories(info)) <= 1

(***************************************************************************)
(* The value                                                               *)
(***************************************************************************)

\* 10 * (b >> 4) + (b & 0xF), in unbounded integers.
Bcd(b) == 10 * (b \div 16) + (b % 16)

\* C13: for every window found valid whose overload bit is clear, the
\* magnitude is (Bcd(byte 4) * 10000 + Bcd(byte 3) * 100 + Bcd(byte 2)) /
\* 10^e, e being the low nibble of byte 5, for every value of the digit
\* bytes; it is multiplied by 1000 exactly for function 0x2c, divided by
\* 1000 exactly for function 0x27 and unchanged for every other function;
\* the digit count sent is e.
ValueDecoding ==
    (parsed.done /\ parsed.valid /\ ~Bit(At(probe, 6), 6)) =>
        LET v == parsed.pv.floatval
            e == At(probe, 5) % 16
            mode == At(probe, 1)
        IN  /\ ~v.inf
            /\ v.mant = Bcd(At(probe, 4)) * 10000 + Bcd(At(probe, 3)) * 100
                           + Bcd(At(probe, 2))
            /\ v.exp = CASE mode = 44 -> e - 3
                         [] mode = 39 -> e + 3
                         [] OTHER -> e
            /\ parsed.out[1].digits = e
            /\ mode # 36 => parsed.out[1].value = v

\* Function 0x2c with the digits 000500 and exponent 1 was sent as 50000
\* with one digit.
ValueDecodingWitness ==
    /\ parsed.done /\ parsed.valid
    /\ SubSeq(probe, 1, 7) = <<172, 44, 0, 5, 0, 49, 0>>
    /\ ~parsed.out[1].value.inf /\ ~parsed.out[1].value.neg
    /\ parsed.out[1].value.exp = -2
    /\ parsed.out[1].value.mant * (10 ^ 2) = 50000
    /\ parsed.out[1].digits = 1

(***************************************************************************)
(* Quantity, unit and flags                                                *)
(***************************************************************************)

\* The quantity and the unit of a category.
QuantityOf(cat) ==
    CASE cat = "is_voltage" -> <<"SR_MQ_VOLTAGE", "SR_UNIT_VOLT">>
      [] cat = "is_current" -> <<"SR_MQ_CURRENT", "SR_UNIT_AMPERE">>
      [] cat = "is_resistance" -> <<"SR_MQ_RESISTANCE", "SR_UNIT_OHM">>
      [] cat = "is_frequency" -> <<"SR_MQ_FREQUENCY", "SR_UNIT_HERTZ">>
      [] cat = "is_capacitance" -> <<"SR_MQ_CAPACITANCE", "SR_UNIT_FARAD">>
      [] cat = "is_duty_cycle" ->
             <<"SR_MQ_DUTY_CYCLE", "SR_UNIT_PERCENTAGE">>
      [] cat = "is_diode" -> <<"SR_MQ_VOLTAGE", "SR_UNIT_VOLT">>
      [] cat = "is_continuity" -> <<"SR_MQ_CONTINUITY", "SR_UNIT_BOOLEAN">>

\* The flags of a function byte and a flags byte.
FlagsOf(mode, b6) ==
         (IF TableRow(mode)[2] = "AC"
          THEN {"SR_MQFLAG_AC", "SR_MQFLAG_RMS"} ELSE {})
    \cup (IF TableRow(mode)[2] = "DC" \/ mode = 35
          THEN {"SR_MQFLAG_DC"} ELSE {})
    \cup (IF mode = 35 THEN {"SR_MQFLAG_DIODE"} ELSE {})
    \cup (IF Bit(b6, 0) THEN {"SR_MQFLAG_MIN"} ELSE {})
    \cup (IF Bit(b6, 1) THEN {"SR_MQFLAG_MAX"} ELSE {})
    \cup (IF Bit(b6, 3) THEN {"SR_MQFLAG_RELATIVE"} ELSE {})
    \cup (IF Bit(b6, 4) THEN {"SR_MQFLAG_HOLD"} ELSE {})

\* C14: the quantity and the unit sent for a window found valid are those
\* of the one category its function byte sets (diode is sent as voltage in
\* volt, continuity as boolean); the flags sent hold AC and RMS exactly for
\* an AC function, DC exactly for a DC function or diode, DIODE exactly for
\* diode, and MIN, MAX, RELATIVE, HOLD exactly when bits 0, 1, 3, 4 of
\* byte 6 are set.
MeasurementMapping ==
    (parsed.done /\ parsed.valid) =>
        LET m == parsed.out[1]
        IN  /\ \A cat \in CategoryBits :
                  Categories(parsed.info) = {cat} =>
                      <<m.mq, m.unit>> = QuantityOf(cat)
            /\ m.mqflags = FlagsOf(At(probe, 1), At(probe, 6))

\* Function 0x03 with the digits 001234, exponent 2 and flags byte 0x00
\* was sent as a voltage of 12.34 volt with the one flag DC.
MeasurementMappingWitness ==
    /\ parsed.done /\ parsed.valid
    /\ SubSeq(probe, 1, 7) = <<172, 3, 52, 18, 0, 50, 0>>
    /\ parsed.out[1].mq = "SR_MQ_VOLTAGE"
    /\ parsed.out[1].unit = "SR_UNIT_VOLT"
    /\ parsed.out[1].value = [inf |-> FALSE, neg |-> FALSE, mant |-> 1234,
                              exp |-> 2]
    /\ parsed.out[1].mqflags = {"SR_MQFLAG_DC"}

(***************************************************************************)
(* Compaction and the bounds of the buffer                                 *)
(***************************************************************************)

\* A step of get_and_handle_data that stored the data bytes of a chunk,
\* every byte within protocol_buf.
StoredChunk == Len(wire') < Len(wire) /\ ~ub'

\* The buffer such a step scanned: what it held at the call, then the data
\* bytes of the chunk.
PreCompaction == pbuf \o SubSeq(chunk', 2, Len(chunk'))

\* C15: when get_and_handle_data returns after storing a chunk, the buffer
\* holds exactly the bytes that lay at and beyond the final scan offset, in
\* their order, from index 0, and its length is the length before the
\* move minus the final scan offset.
Compaction ==
    [][StoredChunk =>
          /\ bufoffset' <= Len(PreCompaction)
          /\ Len(pbuf') = Len(PreCompaction) - bufoffset'
          /\ \A i \in 1 .. Len(pbuf') :
                 pbuf'[i] = PreCompaction[bufoffset' + i]]_vars

\* A call emitted a packet, left the scan offset at 8 or more and moved
\* the bytes behind it, two or more, to the start of the buffer.
CompactionWitness ==
    /\ ~ub /\ SentBy(steps) = 1
    /\ bufoffset >= UT8802E_PACKET_SIZE
    /\ buflen >= 2
    /\ buflen = stored + 1 - bufoffset

\* C16: in every reachable state, the states between two calls of
\* get_and_handle_data included, the scan offset is at most the length of
\* the buffer and the length is at most its capacity.
CursorInvariant == bufoffset <= buflen /\ buflen <= DMM_BUFSIZE

\* C17: as long as every chunk read declared at most 7 data bytes, the
\* buffer holds at most 7 bytes (one less than a packet) whenever
\* get_and_handle_data has returned, and within a call it never holds more
\* than 7 + 7 = 14 bytes: the highest index written is at most 13.
BoundedCarryOver ==
    ~ub => /\ buflen <= UT8802E_PACKET_SIZE - 1
           /\ stored + 1 <= (UT8802E_PACKET_SIZE - 1) + (CHUNK_SIZE - 1)

\* A call met 7 bytes in the buffer and stored 7 more, 14 in all, and
\* left fewer than 8.
BoundedCarryOverWitness ==
    /\ ~ub
    /\ stored + 1 = (UT8802E_PACKET_SIZE - 1) + (CHUNK_SIZE - 1)
    /\ Len(chunk) = CHUNK_SIZE
    /\ buflen = stored + 1 - bufoffset

(***************************************************************************)
(* What the parser does not read                                           *)
(***************************************************************************)

\* The window w with byte 7 replaced by b7, the high nibble of byte 5 by
\* hi, and bits 2 and 5 of byte 6 by those of x (0, 4, 32 or 36).
Variant(w, b7, hi, x) ==
    [w EXCEPT ![8] = b7,
              ![6] = hi * 16 + (w[6] % 16),
              ![7] = w[7] - (IF Bit(w[7], 2) THEN 4 ELSE 0)
                          - (IF Bit(w[7], 5) THEN 32 ELSE 0) + x]

\* What is sent for a window, less the record of the bytes it came from.
Measurement(out) ==
    [i \in 1 .. Len(out) |->
        [mq |-> out[i].mq, unit |-> out[i].unit, mqflags |-> out[i].mqflags,
         digits |-> out[i].digits, value |-> out[i].value]]

\* C18: a window that differs from the probe in nothing but byte 7, the
\* high nibble of byte 5 and bits 2 and 5 of byte 6 is found valid exactly
\* if the probe is and, parsed in a block of zeroes, is sent as the same
\* Measurement as the probe, whatever flags an earlier packet left in the
\* block the probe was parsed in.
IgnoredBits ==
    parsed.done =>
        \A b7 \in {0, 255}, hi \in {0, 15}, x \in {0, 4, 32, 36} :
            LET w == Variant(probe, b7, hi, x)
            IN  /\ sr_ut8802e_packet_valid(w) = parsed.valid
                /\ Measurement(decode_packet_info(w, ZeroInfo))
                      = Measurement(parsed.out)

\* A DC voltage window with bits 2 and 5 of byte 6 set and 0xAC as byte 7
\* was parsed in a block that held the flags of an AC reading with min,
\* max, rel and hold, and was sent with the one flag DC.
IgnoredBitsWitness ==
    /\ parsed.done /\ parsed.valid
    /\ parsed.block.is_ac /\ parsed.block.is_min
    /\ probe = <<172, 3, 52, 18, 0, 50, 36, 172>>
    /\ parsed.out[1].mqflags = {"SR_MQFLAG_DC"}
    /\ parsed.out[1].mq = "SR_MQ_VOLTAGE"

(***************************************************************************)
(* The split into chunks                                                   *)
(***************************************************************************)

\* The bytes the chunks read so far have carried.
Carried == SubSeq(Stream, 1, Delivered)

\* The packet loop run once over all those bytes in one buffer.
OneDrain == PacketLoop(Carried, 0, <<>>, <<>>)

\* C19: however the chunks (of 0 to 7 data bytes each) split the bytes
\* they carried, the packets sent so far and the bytes left in the buffer
\* are those one packet loop over all the bytes carried sends and leaves.
ChunkingInvariance ==
    ~ub => /\ emitted = OneDrain.out
           /\ pbuf = MoveRemaining(Carried, OneDrain.bufoffset)

\* Two packets have been sent, the last chunk carried a single byte (more
\* than two chunks were read) and bytes are left in the buffer.
ChunkingInvarianceWitness ==
    /\ ~ub /\ wire = <<>>
    /\ Len(emitted) = 2
    /\ Len(chunk) = 2
    /\ pbuf # <<>>

\* C20: as long as every chunk read declared at most 7 data bytes, one call
\* of get_and_handle_data sends no packet or one, never two.
OnePacketPerCall == ~ub => SentBy(steps) <= 1

\* A call scanned 14 bytes, the most there can be, in several steps and
\* sent one packet.
OnePacketPerCallWitness ==
    /\ ~ub
    /\ stored + 1 = (UT8802E_PACKET_SIZE - 1) + (CHUNK_SIZE - 1)
    /\ Len(steps) >= 2
    /\ SentBy(steps) = 1

(***************************************************************************)
(* The packet loop of get_and_handle_data, one iteration at a time: the    *)
(* call has stored the bytes of a chunk, protocol_buf holds pbuf and the   *)
(* scan offset is 0.  ret is "none" until the call returns.                *)
(***************************************************************************)

\* The longest buffer the loop is started on.
MaxDrainLen == 10

\* 0xAC, which begins a window found valid, and 0x03, which does not.
DrainBytes == {172, 3}

DrainBuffers == UNION {[1 .. n -> DrainBytes] : n \in 0 .. MaxDrainLen}

InitDrain ==
    /\ first_run = FALSE
    /\ pbuf \in DrainBuffers
    /\ bufoffset = 0
    /\ source = TRUE
    /\ wire = <<>>
    /\ sent = <<>>
    /\ emitted = <<>>
    /\ ret = "none"
    /\ chunk = <<>>
    /\ steps = <<>>
    /\ stored = Len(pbuf) - 1
    /\ ub = FALSE
    /\ probe = <<>>
    /\ parsed = [done |-> FALSE, block |-> ZeroInfo]

\* One iteration of
\*   while ((devc->buflen - devc->bufoffset) >= dmm->packet_size)
\* The trace kept in steps is cut off at MaxDrainLen iterations.
LoopIteration ==
    /\ ret = "none"
    /\ buflen - bufoffset >= UT8802E_PACKET_SIZE
    /\ Len(steps) < MaxDrainLen
    /\ LET win == Window(pbuf, bufoffset)
           valid == sr_ut8802e_packet_valid(win)
           sentNow == IF valid THEN decode_packet(win) ELSE <<>>
       IN  /\ emitted' = emitted \o sentNow
           /\ bufoffset' = bufoffset + Advance(valid)
           /\ steps' = Append(steps, [off |-> bufoffset, win |-> win,
                                      valid |-> valid,
                                      sent |-> Len(sentNow)])
    /\ UNCHANGED <<first_run, pbuf, source, wire, sent, ret, chunk, stored,
                   ub, probe, parsed>>

\* The loop condition found false: the remaining bytes are moved to the
\* start of the buffer and the call returns SR_OK.
LoopExit ==
    /\ ret = "none"
    /\ ~(buflen - bufoffset >= UT8802E_PACKET_SIZE)
    /\ pbuf' = MoveRemaining(pbuf, bufoffset)
    /\ ret' = "SR_OK"
    /\ UNCHANGED <<first_run, bufoffset, source, wire, sent, emitted, chunk,
                   steps, stored, ub, probe, parsed>>

NextDrain == LoopIteration \/ LoopExit

\* The call is sequential code: it takes its next step whenever it has one.
SpecDrain == InitDrain /\ [][NextDrain]_vars /\ WF_vars(NextDrain)

\* The length of the buffer the loop was started on.
DrainLen == stored + 1

\* Every iteration so far met 8 bytes or more behind the scan offset and
\* moved it forward by 1 or by 8; there were at most DrainLen - 7 of them
\* (none for fewer than 8 bytes); the call has returned only with fewer
\* than 8 bytes left behind the scan offset.
DrainProgress ==
    /\ \A i \in 1 .. Len(steps) :
          /\ DrainLen - steps[i].off >= UT8802E_PACKET_SIZE
          /\ OffsetAfter(i) - steps[i].off \in {1, UT8802E_PACKET_SIZE}
    /\ Len(steps) <= IF DrainLen >= UT8802E_PACKET_SIZE
                     THEN DrainLen - (UT8802E_PACKET_SIZE - 1) ELSE 0
    /\ ret = "SR_OK" =>
          /\ DrainLen - bufoffset < UT8802E_PACKET_SIZE
          /\ buflen = DrainLen - bufoffset

\* C21: whatever the buffer holds, the packet loop of one call ends: every
\* iteration moves the scan offset forward by 1 or by 8, the loop stops as
\* soon as fewer than 8 bytes remain behind it, it runs at most len - 7
\* iterations, and the call returns.
DrainTermination == []DrainProgress /\ <>(ret = "SR_OK")

\* The call has returned after the most iterations a buffer of 10 bytes or
\* more allows, len - 7, each over a window found invalid.
DrainTerminationWitness ==
    /\ ret = "SR_OK"
    /\ DrainLen >= 10
    /\ Len(steps) = DrainLen - (UT8802E_PACKET_SIZE - 1)
    /\ SentBy(steps) = 0
    /\ bufoffset = Len(steps)

====
